---- MODULE Spec2Model ----
(***************************************************************************)
(* Model of the calculation engine of the Immo-Invest-Tool                 *)
(* (src/src/finance_engine.py, src/src/tax_calculator.py) and of the run   *)
(* of the dashboard that calls it (src/app.py, main).                      *)
(*                                                                         *)
(* Numbers.  The engine computes with Python floats, IEEE 754 binary64.    *)
(* The model computes with the same numbers: a float is a sign, an odd     *)
(* mantissa of at most 53 bits and a binary exponent, and +, -, * and /    *)
(* round to the nearest float, ties to even, as the hardware does.  The    *)
(* ints the widgets of app.py deliver enter the arithmetic as the floats   *)
(* of the same value.  Not modelled: exponents beyond the range of a       *)
(* double (overflow, subnormal numbers), NaN, infinities, and the sign of  *)
(* zero.                                                                   *)
(*                                                                         *)
(* Control.  berechne_tilgungsplan is modelled statement by statement: one *)
(* action per loop iteration, one for the break, one for the exhausted     *)
(* range.  The straight-line calculators are operators applied by one      *)
(* action each.  Two kinds of callers run them.  main of app.py reads the  *)
(* widgets and calls the calculators in its fixed order, each call fed     *)
(* with the results of the earlier ones.  A caller that imports the engine *)
(* calls one calculator with arguments of its choice, of either sign;      *)
(* holding a loan summary it may go on to the schedule of the same loan,   *)
(* and holding a schedule it may go on to the projection of it.            *)
(***************************************************************************)
EXTENDS Integers, Sequences, FiniteSets, TLC

----------------------------------------------------------------------------
(* Natural numbers of any size: the mantissas of floats and their exact    *)
(* sums, products and quotients.  A natural is the sequence of its digits  *)
(* to the base 2^15, least significant first, without leading zeros; 0 is  *)
(* << >>.                                                                  *)

\* the element of a singleton: Wert({e(x) : x \in {d}}) is e(d) with d
\* computed once, however often e uses x
Wert(S) == CHOOSE x \in S : TRUE

Basis == 2^15

Limb(a, i) == IF i <= Len(a) THEN a[i] ELSE 0

\* the first n digits of a without leading zeros
RECURSIVE NNormAb(_, _)
NNormAb(a, n) ==
    IF n = 0 THEN << >>
    ELSE IF a[n] /= 0 THEN SubSeq(a, 1, n)
    ELSE NNormAb(a, n - 1)

NNorm(a) == Wert({NNormAb(x, Len(x)) : x \in {a}})

\* the natural n, 0 <= n < 2^31
RECURSIVE NFromInt(_)
NFromInt(n) == IF n = 0 THEN << >> ELSE <<n % Basis>> \o NFromInt(n \div Basis)

\* -1, 0, 1 as a < b, a = b, a > b, comparing the digits i, i-1, ..., 1
RECURSIVE NCmpAb(_, _, _)
NCmpAb(a, b, i) ==
    IF i = 0 THEN 0
    ELSE IF a[i] < b[i] THEN -1
    ELSE IF a[i] > b[i] THEN 1
    ELSE NCmpAb(a, b, i - 1)

NCmp(a, b) ==
    Wert({IF Len(x) < Len(y) THEN -1
          ELSE IF Len(x) > Len(y) THEN 1
          ELSE NCmpAb(x, y, Len(x)) : x \in {a}, y \in {b}})

\* the digits i, i+1, ... of a + b + c, c the carry into digit i
RECURSIVE NAddAb(_, _, _, _)
NAddAb(a, b, i, c) ==
    IF i > Len(a) /\ i > Len(b) THEN (IF c = 0 THEN << >> ELSE <<c>>)
    ELSE Wert({<<s % Basis>> \o NAddAb(a, b, i + 1, s \div Basis) :
               s \in {Limb(a, i) + Limb(b, i) + c}})

NAdd(a, b) == Wert({NAddAb(x, y, 1, 0) : x \in {a}, y \in {b}})

\* the digits i, i+1, ... of a - b - c for a >= b, c the borrow from digit i
RECURSIVE NSubAb(_, _, _, _)
NSubAb(a, b, i, c) ==
    IF i > Len(a) THEN << >>
    ELSE Wert({IF s < 0 THEN <<s + Basis>> \o NSubAb(a, b, i + 1, 1)
               ELSE <<s>> \o NSubAb(a, b, i + 1, 0) :
               s \in {a[i] - Limb(b, i) - c}})

NSub(a, b) == NNorm(Wert({NSubAb(x, y, 1, 0) : x \in {a}, y \in {b}}))

\* the digits i, i+1, ... of a * d + c for a digit d, c the carry into digit i
RECURSIVE NMulLimbAb(_, _, _, _)
NMulLimbAb(a, d, i, c) ==
    IF i > Len(a) THEN (IF c = 0 THEN << >> ELSE <<c>>)
    ELSE Wert({<<t % Basis>> \o NMulLimbAb(a, d, i + 1, t \div Basis) :
               t \in {a[i] * d + c}})

NMulLimb(a, d) ==
    Wert({IF e = 0 THEN << >> ELSE NMulLimbAb(x, e, 1, 0) : x \in {a}, e \in {d}})

\* k zero digits
Nullen(k) == [i \in 1 .. k |-> 0]

\* a * Basis^k
NShlLimbs(a, k) == Wert({IF Len(x) = 0 THEN x ELSE Nullen(k) \o x : x \in {a}})

\* a * (b[i] + b[i+1] * Basis + ...)
RECURSIVE NMulAb(_, _, _)
NMulAb(a, b, i) ==
    IF i > Len(b) THEN << >>
    ELSE NAdd(NMulLimb(a, b[i]), NShlLimbs(NMulAb(a, b, i + 1), 1))

NMul(a, b) == Wert({NMulAb(x, y, 1) : x \in {a}, y \in {b}})

\* a * 2^k
NShl(a, k) == Wert({NShlLimbs(NMulLimb(a, 2^(j % 15)), j \div 15) : j \in {k}})

\* the digits 1, ..., i of floor((r * Basis^i + a[1..i]) / d) for a digit
\* d >= 1 and r < d
RECURSIVE NDivLimbAb(_, _, _, _)
NDivLimbAb(a, d, i, r) ==
    IF i = 0 THEN << >>
    ELSE Wert({NDivLimbAb(a, d, i - 1, cur % d) \o <<cur \div d>> :
               cur \in {r * Basis + a[i]}})

NDivLimb(a, d) == NNorm(Wert({NDivLimbAb(x, e, Len(x), 0) : x \in {a}, e \in {d}}))

\* floor(a / 2^k)
NShr(a, k) ==
    Wert({IF j \div 15 >= Len(x) THEN << >>
          ELSE NDivLimb(SubSeq(x, j \div 15 + 1, Len(x)), 2^(j % 15)) :
          x \in {a}, j \in {k}})

\* the number of bits of d, 0 <= d < 2^15
BitLen(d) == Cardinality({j \in 0 .. 14 : 2^j <= d})

NBitLen(a) ==
    Wert({IF Len(x) = 0 THEN 0 ELSE 15 * (Len(x) - 1) + BitLen(x[Len(x)]) : x \in {a}})

\* bit i of a, bit 0 the least significant
NBit(a, i) == Wert({(Limb(x, j \div 15 + 1) \div 2^(j % 15)) % 2 : x \in {a}, j \in {i}})

\* the number of zero bits at the low end of the digit d /= 0
NullBits(d) == Cardinality({j \in 1 .. 14 : d % 2^j = 0})

\* the number of zero bits at the low end of a /= 0, looking from digit i on
RECURSIVE NTrailAb(_, _)
NTrailAb(a, i) == IF a[i] /= 0 THEN 15 * (i - 1) + NullBits(a[i]) ELSE NTrailAb(a, i + 1)

NTrail(a) == Wert({NTrailAb(x, 1) : x \in {a}})

\* the largest digit d, lo <= d <= hi, with b * d <= r
RECURSIVE NZiffer(_, _, _, _)
NZiffer(r, b, lo, hi) ==
    IF lo = hi THEN lo
    ELSE Wert({IF NCmp(NMulLimb(b, mid), r) <= 0
               THEN NZiffer(r, b, mid, hi)
               ELSE NZiffer(r, b, lo, mid - 1) :
               mid \in {(lo + hi + 1) \div 2}})

\* quotient and remainder of (r * Basis^i + a[1..i]) by b /= 0, r < b: long
\* division digit by digit, from digit i of a down to digit 1
RECURSIVE NDivModAb(_, _, _, _)
NDivModAb(a, b, i, r) ==
    IF i = 0 THEN [q |-> << >>, r |-> r]
    ELSE Wert({Wert({Wert({[q |-> rest.q \o <<d>>, r |-> rest.r] :
                           rest \in {NDivModAb(a, b, i - 1, NSub(r2, NMulLimb(b, d)))}}) :
                     d \in {NZiffer(r2, b, 0, Basis - 1)}}) :
               r2 \in {NNorm(<<a[i]>> \o r)}})

NDivMod(a, b) ==
    Wert({[q |-> NNorm(qr.q), r |-> qr.r] :
          qr \in {Wert({NDivModAb(x, y, Len(x), << >>) : x \in {a}, y \in {b}})}})

----------------------------------------------------------------------------
(* Python floats.  A number is a record [neg, man, exp] of value           *)
(* (-1)^neg * man * 2^exp, man an odd natural or 0 (then neg = FALSE and   *)
(* exp = 0, so -0.0 and 0.0 are one value).  A float is a number whose     *)
(* mantissa has at most 53 bits.  +, -, * and / yield the float nearest to *)
(* the exact result, ties to the even mantissa, as IEEE 754 binary64 does. *)
(* Exponents are not bounded: no input of this model comes near 1e308 or   *)
(* 1e-308, where doubles overflow or lose precision.                       *)

\* the bits of the mantissa of a double
Mantisse == 53

Zero == [neg |-> FALSE, man |-> << >>, exp |-> 0]

\* the number (-1)^neg * m * 2^e in its canonical form
Zahl(neg, m, e) ==
    Wert({IF Len(x) = 0 THEN Zero
          ELSE Wert({[neg |-> neg, man |-> NShr(x, t), exp |-> e + t] :
                     t \in {NTrail(x)}}) :
          x \in {m}})

Abs(n) == IF n < 0 THEN -n ELSE n

\* the float of the int n, |n| < 2^31
R(n) == Zahl(n < 0, NFromInt(Abs(n)), 0)

\* the float nearest to (-1)^neg * (m + f) * 2^e, where 0 <= f < 1 and
\* rest says f > 0; with rest, m has two bits or more beyond the 53
RundeAb(neg, m, e, rest, s) ==
    IF s <= 0 THEN Zahl(neg, m, e)
    ELSE LET halb   == NBit(m, s - 1) = 1
             mehr   == rest \/ NTrail(m) < s - 1
             gerade == NBit(m, s) = 0
         IN  IF halb /\ (mehr \/ ~gerade)
             THEN Zahl(neg, NAdd(NShr(m, s), <<1>>), e + s)
             ELSE Zahl(neg, NShr(m, s), e + s)

Runde(neg, m, e, rest) ==
    Wert({Wert({RundeAb(neg, x, e, rest, s) : s \in {NBitLen(x) - Mantisse}}) :
          x \in {m}})

\* the float nearest to the number x
Float(x) == Wert({Runde(y.neg, y.man, y.exp, FALSE) : y \in {x}})

\* the exact sum of two numbers
XAddAb(a, b, e) ==
    Wert({Wert({IF a.neg = b.neg THEN Zahl(a.neg, NAdd(ma, mb), e)
                ELSE IF c = 0 THEN Zero
                ELSE IF c > 0 THEN Zahl(a.neg, NSub(ma, mb), e)
                ELSE Zahl(b.neg, NSub(mb, ma), e) :
                c \in {NCmp(ma, mb)}}) :
          ma \in {NShl(a.man, a.exp - e)}, mb \in {NShl(b.man, b.exp - e)}})

XAdd(a, b) ==
    Wert({IF Len(x.man) = 0 THEN y
          ELSE IF Len(y.man) = 0 THEN x
          ELSE XAddAb(x, y, IF x.exp < y.exp THEN x.exp ELSE y.exp) :
          x \in {a}, y \in {b}})

\* -a
Neg(a) == Wert({IF Len(x.man) = 0 THEN x ELSE [x EXCEPT !.neg = ~x.neg] : x \in {a}})

\* the exact difference and the exact product of two numbers
XSub(a, b) == XAdd(a, Neg(b))

XMul(a, b) ==
    Wert({Zahl(x.neg /= y.neg, NMul(x.man, y.man), x.exp + y.exp) : x \in {a}, y \in {b}})

\* a raised ZeroDivisionError in the place of a number
ZeroDivisionError == [neg |-> TRUE, man |-> << >>, exp |-> 0]

Raised(a) == a = ZeroDivisionError

\* Python's a + b, a - b, a * b; an operand that is a raised exception
\* propagates, as the exception leaves the function
Add(a, b) ==
    Wert({IF Raised(x) \/ Raised(y) THEN ZeroDivisionError ELSE Float(XAdd(x, y)) :
          x \in {a}, y \in {b}})

Sub(a, b) ==
    Wert({IF Raised(x) \/ Raised(y) THEN ZeroDivisionError ELSE Float(XSub(x, y)) :
          x \in {a}, y \in {b}})

Mul(a, b) ==
    Wert({IF Raised(x) \/ Raised(y) THEN ZeroDivisionError ELSE Float(XMul(x, y)) :
          x \in {a}, y \in {b}})

\* the quotient of two floats a /= 0 and b /= 0: the quotient of the
\* mantissas to 55 bits or more and whether the division left a remainder,
\* then rounded
DivAb(a, b, k) ==
    Wert({Runde(a.neg /= b.neg, qr.q, a.exp - b.exp - k, Len(qr.r) /= 0) :
          qr \in {NDivMod(NShl(a.man, k), b.man)}})

\* Python's a / b
Div(a, b) ==
    Wert({IF Raised(x) \/ Raised(y) \/ Len(y.man) = 0 THEN ZeroDivisionError
          ELSE IF Len(x.man) = 0 THEN Zero
          ELSE DivAb(x, y, Mantisse + 2 + NBitLen(y.man)) :
          x \in {a}, y \in {b}})

\* Python's a < b, a <= b
Lt(a, b) == XSub(a, b).neg

Le(a, b) == ~Lt(b, a)

\* Python's min(a, b): b only when b < a
Min(a, b) == Wert({IF Lt(y, x) THEN y ELSE x : x \in {a}, y \in {b}})

\* Python's max(a, b): b only when b > a
Max(a, b) == Wert({IF Lt(x, y) THEN y ELSE x : x \in {a}, y \in {b}})

\* the float of the decimal literal n/d
Rat(n, d) == Div(R(n), R(d))

Hundert == R(100)

----------------------------------------------------------------------------
(* Bounds and input sets.                                                  *)

\* longest term (laufzeit_jahre) a call is made with
MaxLaufzeit == 5

\* loan amounts: negative, zero and positive
Darlehensbetraege == {R(-4), R(0), R(4), R(8)}

\* annual interest rates in percent
Zinssaetze == {R(-25), R(0), R(25), R(50)}

\* initial amortization rates in percent
Tilgungssaetze == {R(-25), R(0), Rat(25, 2), R(25), R(50), R(100)}

Laufzeiten == 0 .. MaxLaufzeit

\* the loan of the scenario of the specification: 240000 at 3.5 % interest and
\* 2.0 % initial amortization over 30 years
Szenario == <<R(240000), Rat(7, 2), R(2), 30>>

\* a loan of few years whose payments are not whole numbers of cents:
\* 100000 at 8.1 % interest and 8.0 % initial amortization over 8 years
Rundung == <<R(100000), Rat(81, 10), R(8), 8>>

\* a loan whose amortization rate is lost when it is added to the rate:
\* 1000 at 0.9 % interest and 2^-60 % initial amortization over 3 years
Winzig == <<R(1000), Rat(9, 10), Zahl(FALSE, <<1>>, -60), 3>>

\* a loan whose annuity is, as a float, below the interest of the first year,
\* although its amortization rate is > 0: 3 at 110 % interest and 2^-60 %
\* initial amortization over 1 year
Steigend == <<R(3), R(110), Zahl(FALSE, <<1>>, -60), 1>>

\* a loan whose balance grows tenfold and more: 1 at 1000 % interest and
\* -100 % initial amortization over 17 years
Wachsend == <<R(1), R(1000), R(-100), 17>>

\* a loan whose principal portion is > 0 and below the rounding unit of the
\* balance: 1000 at 0.9 % interest and 2^-51 % initial amortization over 3 years
Kaum == <<R(1000), Rat(9, 10), Zahl(FALSE, <<1>>, -51), 3>>

\* a loan without interest whose 50 payments of 2 % leave a rest of the
\* roundings: 7 at 0 % interest and 2 % initial amortization over 50 years
Rest == <<R(7), R(0), R(2), 50>>

\* a loan whose annuity is, as a float, below the interest of the first year
\* and whose shortfall grows with the balance over the years: 5 at 2992 %
\* interest and 2^-60 % initial amortization over 15 years
Lawine == <<R(5), R(2992), Zahl(FALSE, <<1>>, -60), 15>>

\* the loans a caller of the engine asks for: <<darlehensbetrag,
\* zinssatz_prozent, tilgung_prozent, laufzeit_jahre>>
Darlehen ==
    (Darlehensbetraege \X Zinssaetze \X Tilgungssaetze \X Laufzeiten)
        \cup {Szenario, Rundung, Winzig, Steigend, Wachsend, Kaum, Rest, Lawine}

----------------------------------------------------------------------------
(* State.                                                                  *)

VARIABLES
    pc,                 \* position in berechne_tilgungsplan: "idle", "loop", "done"
    darlehensbetrag,    \* arguments of the berechne_tilgungsplan call
    zinssatz_prozent,
    tilgung_prozent,
    laufzeit_jahre,
    zinssatz,           \* locals of berechne_tilgungsplan
    annuitaet,
    jahr,               \* next value of the loop variable, range(1, laufzeit_jahre + 1)
    restschuld,
    zinsen_kumuliert,
    tilgung_kumuliert,
    tilgungsplan,       \* the rows appended so far; the DataFrame once pc = "done"
    ergebnis,           \* what the last straight-line calculator call returned
    main                \* the locals of main of app.py while it runs

argumente == <<darlehensbetrag, zinssatz_prozent, tilgung_prozent, laufzeit_jahre>>

lokale == <<zinssatz, annuitaet, jahr, restschuld, zinsen_kumuliert, tilgung_kumuliert>>

vars == <<pc, argumente, lokale, tilgungsplan, ergebnis, main>>

\* no calculator has been called; main is not running
Nichts == [fn |-> "none"]

Init ==
    /\ pc = "idle"
    /\ darlehensbetrag = Zero
    /\ zinssatz_prozent = Zero
    /\ tilgung_prozent = Zero
    /\ laufzeit_jahre = 0
    /\ zinssatz = Zero
    /\ annuitaet = Zero
    /\ jahr = 1
    /\ restschuld = Zero
    /\ zinsen_kumuliert = Zero
    /\ tilgung_kumuliert = Zero
    /\ tilgungsplan = << >>
    /\ ergebnis = Nichts
    /\ main = Nichts

----------------------------------------------------------------------------
(* berechne_tilgungsplan, finance_engine.py 124-180.                       *)

\* lines 141-153: the statements before the loop
Tilgungsplan_Anfang(d, z, t, n) ==
    /\ pc = "idle"
    /\ darlehensbetrag' = d
    /\ zinssatz_prozent' = z
    /\ tilgung_prozent' = t
    /\ laufzeit_jahre' = n
    /\ zinssatz' = Div(z, Hundert)
    /\ annuitaet' = Div(Mul(d, Add(z, t)), Hundert)
    /\ tilgungsplan' = << >>
    /\ restschuld' = d
    /\ zinsen_kumuliert' = Zero
    /\ tilgung_kumuliert' = Zero
    /\ jahr' = 1
    /\ pc' = "loop"

\* a caller of the engine asks for the schedule of a loan
Tilgungsplan_Aufruf(d, z, t, n) ==
    /\ ergebnis = Nichts
    /\ main = Nichts
    /\ Tilgungsplan_Anfang(d, z, t, n)
    /\ UNCHANGED <<ergebnis, main>>

\* a caller that holds the summary of a loan asks for the schedule of the same
\* loan, in the order of app.py 277-290
Tilgungsplan_NachAnnuitaet ==
    /\ main = Nichts
    /\ ergebnis.fn = "berechne_annuitaet"
    /\ Tilgungsplan_Anfang(ergebnis.args[1], ergebnis.args[2], ergebnis.args[3],
                           ergebnis.args[4])
    /\ UNCHANGED <<ergebnis, main>>

\* the interest of the year taken with the rate in percent, not as a fraction
Zinsanteil_InProzent(rs, zs) == Mul(rs, Mul(zs, Hundert))

\* line 159
Zinsanteil(rs, zs) == Mul(rs, zs)

\* the principal portion without the cap at the remaining balance
Tilgungsanteil_OhneMin(ann, za, rs) == Sub(ann, za)

\* the whole payment counted as principal
Tilgungsanteil_VolleRate(ann, za, rs) == Min(ann, rs)

\* the principal portion clamped at 0
Tilgungsanteil_Geklemmt(ann, za, rs) == Max(Zero, Min(Sub(ann, za), rs))

\* line 160
Tilgungsanteil(ann, za, rs) == Min(Sub(ann, za), rs)

\* + instead of -
NeueRestschuld_Addiert(rs, ta) == Max(Zero, Add(rs, ta))

\* line 161
NeueRestschuld(rs, ta) == Max(Zero, Sub(rs, ta))

\* = instead of +=
Kumuliert_Ueberschrieben(summe, anteil) == anteil

\* -= instead of +=
Kumuliert_Abgezogen(summe, anteil) == Sub(summe, anteil)

\* lines 163, 164: +=
Kumuliert(summe, anteil) == Add(summe, anteil)

\* lines 166-171: one row of the DataFrame built at 173-180
Zeile(j, za, ta, rs, zk, tk) ==
    [Jahr |-> j, Zinsanteil |-> za, Tilgungsanteil |-> ta, Restschuld |-> rs,
     Zinsen_kumuliert |-> zk, Tilgung_kumuliert |-> tk]

\* range(1, laufzeit_jahre): one year short
SchleifeLaeuft_EinJahrWeniger == jahr < laufzeit_jahre

\* range(1, laufzeit_jahre + 2): one year more
SchleifeLaeuft_EinJahrMehr == jahr <= laufzeit_jahre + 1

\* line 155: the loop variable has a next value
SchleifeLaeuft == jahr <= laufzeit_jahre

\* break only on restschuld < 0
Getilgt_NurNegativ == Lt(restschuld, Zero)

\* line 156: the break condition
Getilgt == Le(restschuld, Zero)

\* lines 155-171: one iteration that does not break; each local is bound to
\* its value once, as the assignment statement does
Tilgungsplan_Jahr ==
    /\ pc = "loop"
    /\ SchleifeLaeuft
    /\ ~Getilgt
    /\ \E zinsanteil \in {Zinsanteil(restschuld, zinssatz)} :
       \E tilgungsanteil \in {Tilgungsanteil(annuitaet, zinsanteil, restschuld)} :
       \E rs \in {NeueRestschuld(restschuld, tilgungsanteil)},
          zk \in {Kumuliert(zinsen_kumuliert, zinsanteil)},
          tk \in {Kumuliert(tilgung_kumuliert, tilgungsanteil)} :
           /\ restschuld' = rs
           /\ zinsen_kumuliert' = zk
           /\ tilgung_kumuliert' = tk
           /\ tilgungsplan' = Append(tilgungsplan,
                                     Zeile(jahr, zinsanteil, tilgungsanteil, rs, zk, tk))
    /\ jahr' = jahr + 1
    /\ UNCHANGED <<pc, argumente, zinssatz, annuitaet, ergebnis, main>>

\* lines 156-157, 173: break, then return the DataFrame
Tilgungsplan_Break ==
    /\ pc = "loop"
    /\ SchleifeLaeuft
    /\ Getilgt
    /\ pc' = "done"
    /\ UNCHANGED <<argumente, lokale, tilgungsplan, ergebnis, main>>

\* lines 155, 173: the range is exhausted, return the DataFrame
Tilgungsplan_Ende ==
    /\ pc = "loop"
    /\ ~SchleifeLaeuft
    /\ pc' = "done"
    /\ UNCHANGED <<argumente, lokale, tilgungsplan, ergebnis, main>>

----------------------------------------------------------------------------
(* berechne_annuitaet, finance_engine.py 89-121.                           *)

\* the summary without the floors of lines 119-120
berechne_annuitaet_OhneUntergrenze(d, z, t, n) ==
    LET jaehrliche_rate == Div(Mul(d, Add(z, t)), Hundert)
        gesamtkosten == Mul(jaehrliche_rate, R(n))
    IN  [darlehensbetrag |-> d,
         monatliche_rate |-> Div(jaehrliche_rate, R(12)),
         jaehrliche_rate |-> jaehrliche_rate,
         gesamtkosten |-> gesamtkosten,
         zinsen_gesamt |-> Max(Sub(gesamtkosten, d), Zero)]

\* gesamtkosten taken from the monthly payment: monatliche_rate * laufzeit_jahre
berechne_annuitaet_MonatsrateMalLaufzeit(d, z, t, n) ==
    [berechne_annuitaet_OhneUntergrenze(d, z, t, n) EXCEPT
        !.gesamtkosten = Max(Mul(Div(Div(Mul(d, Add(z, t)), Hundert), R(12)), R(n)), d),
        !.zinsen_gesamt = Max(Sub(Mul(Div(Div(Mul(d, Add(z, t)), Hundert), R(12)), R(n)), d), Zero)]

berechne_annuitaet(d, z, t, n) ==
    LET annuitaet_prozent == Add(z, t)
        jaehrliche_rate == Div(Mul(d, annuitaet_prozent), Hundert)
        monatliche_rate == Div(jaehrliche_rate, R(12))
        gesamtkosten == Mul(jaehrliche_rate, R(n))
        zinsen_gesamt == Sub(gesamtkosten, d)
    IN  [darlehensbetrag |-> d,
         monatliche_rate |-> monatliche_rate,
         jaehrliche_rate |-> jaehrliche_rate,
         gesamtkosten |-> Max(gesamtkosten, d),
         zinsen_gesamt |-> Max(zinsen_gesamt, Zero)]

Annuitaet_Aufruf(d, z, t, n) ==
    /\ pc = "idle"
    /\ ergebnis = Nichts
    /\ main = Nichts
    /\ ergebnis' = [fn |-> "berechne_annuitaet", args |-> <<d, z, t, n>>,
                    out |-> berechne_annuitaet(d, z, t, n)]
    /\ UNCHANGED <<pc, argumente, lokale, tilgungsplan, main>>

----------------------------------------------------------------------------
(* berechne_cashflow, finance_engine.py 183-217.                           *)

\* monthly rent
Kaltmieten == {R(0), R(500), R(1000)}

\* monthly non-recoverable costs
Kosten_monatlich == {R(0), R(100)}

\* vacancy allowance in percent
Mietausfallwagnisse == {R(0), R(2), R(50)}

\* monthly loan payment
Monatsraten == {R(0), R(400), R(1100)}

\* monthly tax effect
Steuervorteile_monatlich == {R(-50), R(0), Rat(175, 4)}

\* the allowance taken as a factor, not as a percentage
Mietausfall_OhneProzent(brutto_mieteinnahmen, mietausfallwagnis_prozent) ==
    Mul(brutto_mieteinnahmen, mietausfallwagnis_prozent)

\* line 203
Mietausfall(brutto_mieteinnahmen, mietausfallwagnis_prozent) ==
    Div(Mul(brutto_mieteinnahmen, mietausfallwagnis_prozent), Hundert)

\* lines 202-217
berechne_cashflow(kaltmiete_monatlich, nicht_umlegbare_kosten_monatlich, mietausfallwagnis_prozent, monatliche_rate, steuervorteil_monatlich) ==
    LET brutto_mieteinnahmen == Mul(kaltmiete_monatlich, R(12))
        mietausfall == Mietausfall(brutto_mieteinnahmen, mietausfallwagnis_prozent)
        netto_mieteinnahmen ==
            Sub(Sub(brutto_mieteinnahmen, mietausfall),
                Mul(nicht_umlegbare_kosten_monatlich, R(12)))
        jaehrliche_rate == Mul(monatliche_rate, R(12))
        cashflow_vor_steuern == Sub(netto_mieteinnahmen, jaehrliche_rate)
        cashflow_nach_steuern ==
            Add(cashflow_vor_steuern, Mul(steuervorteil_monatlich, R(12)))
    IN  [brutto_mieteinnahmen |-> brutto_mieteinnahmen,
         netto_mieteinnahmen |-> netto_mieteinnahmen,
         cashflow_vor_steuern |-> cashflow_vor_steuern,
         cashflow_nach_steuern |-> cashflow_nach_steuern]

\* app.py 323-329
Cashflow_Aufruf(km, nk, mw, mr, sv) ==
    /\ pc = "idle"
    /\ ergebnis = Nichts
    /\ main = Nichts
    /\ ergebnis' = [fn |-> "berechne_cashflow", args |-> <<km, nk, mw, mr, sv>>,
                    out |-> berechne_cashflow(km, nk, mw, mr, sv)]
    /\ UNCHANGED <<pc, argumente, lokale, tilgungsplan, main>>

----------------------------------------------------------------------------
(* berechne_renditen, finance_engine.py 220-274.                           *)

\* purchase prices, closing costs and equity: the denominators
Kaufpreise == {R(-4), R(0), R(4)}

Nebenkosten == {R(-8), R(-4), R(0), R(4)}

Eigenkapitale == {R(-2), R(0), R(2)}

\* rents and cash flows: the numerators
Zaehler == {R(-3), R(0), R(3)}

\* the guard kaufpreis != 0 instead of kaufpreis > 0
BruttoMietrendite_UngleichNull(brutto_mieteinnahmen, kaufpreis) ==
    IF kaufpreis /= Zero THEN Mul(Div(brutto_mieteinnahmen, kaufpreis), Hundert)
    ELSE Zero

\* line 244
BruttoMietrendite(brutto_mieteinnahmen, kaufpreis) ==
    IF Lt(Zero, kaufpreis) THEN Mul(Div(brutto_mieteinnahmen, kaufpreis), Hundert)
    ELSE Zero

\* lines 247-251
NettoMietrendite(netto_mieteinnahmen, gesamtinvestition) ==
    IF Lt(Zero, gesamtinvestition)
    THEN Mul(Div(netto_mieteinnahmen, gesamtinvestition), Hundert)
    ELSE Zero

\* lines 254-256
Eigenkapitalrendite(cashflow_nach_steuern, eigenkapital) ==
    IF Lt(Zero, eigenkapital) THEN Mul(Div(cashflow_nach_steuern, eigenkapital), Hundert)
    ELSE Zero

\* lines 262-266
CashflowRendite(cashflow_nach_steuern, gesamtinvestition) ==
    IF Lt(Zero, gesamtinvestition)
    THEN Mul(Div(cashflow_nach_steuern, gesamtinvestition), Hundert)
    ELSE Zero

\* the RenditeErgebnis, or the exception a division raised
berechne_renditen(kaufpreis, nebenkosten, eigenkapital, brutto_mieteinnahmen, netto_mieteinnahmen, cashflow_nach_steuern) ==
    LET gesamtinvestition == Add(kaufpreis, nebenkosten)
        brutto_mietrendite == BruttoMietrendite(brutto_mieteinnahmen, kaufpreis)
        netto_mietrendite == NettoMietrendite(netto_mieteinnahmen, gesamtinvestition)
        eigenkapitalrendite == Eigenkapitalrendite(cashflow_nach_steuern, eigenkapital)
        objektrendite == netto_mietrendite
        cashflow_rendite == CashflowRendite(cashflow_nach_steuern, gesamtinvestition)
    IN  IF \/ Raised(brutto_mietrendite) \/ Raised(netto_mietrendite)
           \/ Raised(eigenkapitalrendite) \/ Raised(cashflow_rendite)
        THEN [raised |-> "ZeroDivisionError"]
        ELSE [raised |-> "",
              brutto_mietrendite |-> brutto_mietrendite,
              netto_mietrendite |-> netto_mietrendite,
              eigenkapitalrendite |-> eigenkapitalrendite,
              objektrendite |-> objektrendite,
              cashflow_rendite |-> cashflow_rendite]

Renditen_Aufruf(k, nk, ek, b, nm, cf) ==
    /\ pc = "idle"
    /\ ergebnis = Nichts
    /\ main = Nichts
    /\ ergebnis' = [fn |-> "berechne_renditen", args |-> <<k, nk, ek, b, nm, cf>>,
                    out |-> berechne_renditen(k, nk, ek, b, nm, cf)]
    /\ UNCHANGED <<pc, argumente, lokale, tilgungsplan, main>>

----------------------------------------------------------------------------
(* berechne_vermoegensaufbau, finance_engine.py 277-334.                   *)

\* initial equity, annual cash flow, appreciation in percent, purchase price
Vermoegen_Eigenkapitale == {R(2)}

Vermoegen_Cashflows == {Rat(1, 10), R(3)}

Wertsteigerungen == {R(-25), R(25)}

Vermoegen_Kaufpreise == {R(-4), R(0), R(8)}

\* the early return of lines 296-297 left out
Empty_NieLeer(df) == FALSE

\* line 296: DataFrame.empty, no rows
Empty(df) == Len(df) = 0

\* line 297: pd.DataFrame(), no rows
LeererDataFrame == [raised |-> "", rows |-> << >>]

\* line 301: .iloc[0] of a frame without rows raises IndexError
IlocRaises(plan) == Len(plan) = 0

\* line 301
Ursprungsdarlehen(plan) ==
    Sub(Add(plan[1].Restschuld, plan[1].Tilgung_kumuliert), plan[1].Tilgungsanteil)

\* line 308
Startwert(kaufpreis, darlehen, eigenkapital) ==
    IF Lt(Zero, kaufpreis) THEN kaufpreis ELSE Add(darlehen, eigenkapital)

\* the appreciation taken as a factor, not as a percentage
Wertsteigerung_OhneProzent(immobilienwert, wertsteigerung_prozent) ==
    Mul(immobilienwert, Add(R(1), wertsteigerung_prozent))

\* line 313
Wertsteigerung(immobilienwert, wertsteigerung_prozent) ==
    Mul(immobilienwert, Add(R(1), Div(wertsteigerung_prozent, Hundert)))

\* lines 316-325: the row of iteration i, the values of immobilienwert (313)
\* and cf_kumuliert (321) given
VermoegenZeile(rate, immobilienwert, cf_kumuliert) ==
    Wert({[Jahr |-> rate.Jahr,
           Immobilienwert |-> immobilienwert,
           Restschuld |-> rate.Restschuld,
           Nettovermoegen |-> netto,
           Cashflow_kumuliert |-> cf_kumuliert,
           Gesamtvermoegen |-> Add(netto, cf_kumuliert)] :
          netto \in {Sub(immobilienwert, rate.Restschuld)}})

\* lines 311-325: the iterations i, i+1, ... of the loop, `bisher` being the rows
\* built so far, with the locals immobilienwert and cf_kumuliert before iteration i
RECURSIVE VermoegenSchleife(_, _, _, _, _, _, _)
VermoegenSchleife(plan, i, immobilienwert, cf_kumuliert, cashflow_jaehrlich, wertsteigerung_prozent, bisher) ==
    IF i > Len(plan) THEN bisher
    ELSE Wert({VermoegenSchleife(plan, i + 1, wert, cf, cashflow_jaehrlich,
                                 wertsteigerung_prozent,
                                 Append(bisher, VermoegenZeile(plan[i], wert, cf))) :
               wert \in {Wertsteigerung(immobilienwert, wertsteigerung_prozent)},
               cf \in {Add(cf_kumuliert, cashflow_jaehrlich)}})

\* cf_kumuliert starting at the annual cash flow instead of 0.0
berechne_vermoegensaufbau_CashflowStart(eigenkapital, plan, cashflow_jaehrlich, wertsteigerung_prozent, kaufpreis) ==
    IF Empty(plan) THEN LeererDataFrame
    ELSE [raised |-> "",
          rows |-> VermoegenSchleife(plan, 1,
                       Startwert(kaufpreis, Ursprungsdarlehen(plan), eigenkapital),
                       cashflow_jaehrlich, cashflow_jaehrlich,
                       wertsteigerung_prozent, << >>)]

\* the DataFrame returned (its rows), or the exception raised
berechne_vermoegensaufbau(eigenkapital, plan, cashflow_jaehrlich, wertsteigerung_prozent, kaufpreis) ==
    IF Empty(plan) THEN LeererDataFrame
    ELSE IF IlocRaises(plan) THEN [raised |-> "IndexError", rows |-> << >>]
    ELSE [raised |-> "",
          rows |-> VermoegenSchleife(plan, 1,
                       Startwert(kaufpreis, Ursprungsdarlehen(plan), eigenkapital),
                       Zero, cashflow_jaehrlich, wertsteigerung_prozent, << >>)]

\* app.py 342-348: the caller passes the schedule berechne_tilgungsplan returned
Vermoegensaufbau_Aufruf(ek, cf, w, k) ==
    /\ pc = "done"
    /\ ergebnis = Nichts
    /\ main = Nichts
    /\ ergebnis' = [fn |-> "berechne_vermoegensaufbau", args |-> <<ek, cf, w, k>>,
                    out |-> berechne_vermoegensaufbau(ek, tilgungsplan, cf, w, k)]
    /\ UNCHANGED <<pc, argumente, lokale, tilgungsplan, main>>

----------------------------------------------------------------------------
(* berechne_nebenkosten_nach_bundesland, tax_calculator.py 157-190.        *)

\* tax_calculator.py 23-45: the transfer-tax rate (steuersatz) of each member
Bundesland ==
    [BADEN_WUERTTEMBERG |-> R(5), BAYERN |-> Rat(7, 2), BERLIN |-> R(6),
     BRANDENBURG |-> Rat(13, 2), BREMEN |-> R(5), HAMBURG |-> Rat(11, 2),
     HESSEN |-> R(6), MECKLENBURG_VORPOMMERN |-> R(6), NIEDERSACHSEN |-> R(5),
     NORDRHEIN_WESTFALEN |-> Rat(13, 2), RHEINLAND_PFALZ |-> R(5),
     SAARLAND |-> Rat(13, 2), SACHSEN |-> Rat(11, 2), SACHSEN_ANHALT |-> R(5),
     SCHLESWIG_HOLSTEIN |-> Rat(13, 2), THUERINGEN |-> R(5)]

\* purchase prices: negative, zero and positive
Nebenkosten_Kaufpreise == {R(-200), R(0), R(200)}

\* broker commission in percent
Maklerprozente == {R(0), Rat(7, 2), R(4)}

\* notary and land-register costs in percent
Notarprozente == {Rat(3, 2), R(2)}

\* the commission applied whatever the flag says
Makler_Immer(mit_makler, makler_prozent) == makler_prozent

\* line 177
Makler(mit_makler, makler_prozent) ==
    IF mit_makler THEN makler_prozent ELSE Zero

\* a price <= 0 rejected with a ValueError before line 176
berechne_nebenkosten_nach_bundesland_MitValidierung(kaufpreis, bundesland, mit_makler, makler_prozent, notar_und_grundbuch_prozent) ==
    IF Le(kaufpreis, Zero) THEN [raised |-> "ValueError"]
    ELSE [raised |-> "",
          grunderwerbsteuer |-> Div(Mul(kaufpreis, Bundesland[bundesland]), Hundert),
          grunderwerbsteuer_satz |-> Bundesland[bundesland],
          notar_und_grundbuch |-> Div(Mul(kaufpreis, notar_und_grundbuch_prozent), Hundert),
          makler |-> Div(Mul(kaufpreis, Makler(mit_makler, makler_prozent)), Hundert),
          gesamt |-> Div(Mul(kaufpreis, Add(Add(Bundesland[bundesland], notar_und_grundbuch_prozent), Makler(mit_makler, makler_prozent))), Hundert),
          gesamt_prozent |-> Add(Add(Bundesland[bundesland], notar_und_grundbuch_prozent), Makler(mit_makler, makler_prozent))]

\* lines 176-190: the dictionary returned; no statement of the function raises
berechne_nebenkosten_nach_bundesland(kaufpreis, bundesland, mit_makler, makler_prozent, notar_und_grundbuch_prozent) ==
    LET grunderwerbsteuer_satz == Bundesland[bundesland]
        makler == Makler(mit_makler, makler_prozent)
        grunderwerbsteuer == Div(Mul(kaufpreis, grunderwerbsteuer_satz), Hundert)
        notar_und_grundbuch == Div(Mul(kaufpreis, notar_und_grundbuch_prozent), Hundert)
        maklerkosten == Div(Mul(kaufpreis, makler), Hundert)
    IN  [raised |-> "",
         grunderwerbsteuer |-> grunderwerbsteuer,
         grunderwerbsteuer_satz |-> grunderwerbsteuer_satz,
         notar_und_grundbuch |-> notar_und_grundbuch,
         makler |-> maklerkosten,
         gesamt |-> Add(Add(grunderwerbsteuer, notar_und_grundbuch), maklerkosten),
         gesamt_prozent |-> Add(Add(grunderwerbsteuer_satz, notar_und_grundbuch_prozent), makler)]

\* app.py 142: the closing costs of the purchase
Nebenkosten_Aufruf(k, bl, mm, mp, np) ==
    /\ pc = "idle"
    /\ ergebnis = Nichts
    /\ main = Nichts
    /\ ergebnis' = [fn |-> "berechne_nebenkosten_nach_bundesland",
                    args |-> <<k, bl, mm, mp, np>>,
                    out |-> berechne_nebenkosten_nach_bundesland(k, bl, mm, mp, np)]
    /\ UNCHANGED <<pc, argumente, lokale, tilgungsplan, main>>

----------------------------------------------------------------------------
(* berechne_afa, tax_calculator.py 86-105.                                 *)

\* tax_calculator.py 14-20: the value of each member, a rate in percent
AfATyp ==
    [ALTBAU_VOR_1925 |-> Rat(5, 2), ALTBAU_AB_1925 |-> R(2),
     NEUBAU_AB_2023 |-> R(3), DENKMALSCHUTZ |-> R(9)]

\* the whole price depreciated, the land included
berechne_afa_OhneGebaeudeanteil(kaufpreis, gebaeude_anteil_prozent, afa_typ) ==
    Div(Mul(kaufpreis, AfATyp[afa_typ]), Hundert)

\* lines 104-105
berechne_afa(kaufpreis, gebaeude_anteil_prozent, afa_typ) ==
    LET gebaeudewert == Div(Mul(kaufpreis, gebaeude_anteil_prozent), Hundert)
    IN  Div(Mul(gebaeudewert, AfATyp[afa_typ]), Hundert)

----------------------------------------------------------------------------
(* berechne_steuerliche_absetzbarkeit, tax_calculator.py 108-154.          *)

\* the fields of Steuerdaten (tax_calculator.py 60-72)
Steuer_Kaufpreise == {R(0), R(300000)}

Steuer_Gebaeudeanteile == {R(50), R(75)}

Zinsen_jaehrlich == {R(0), R(8400)}

Mieteinnahmen_jaehrlich == {R(0), R(12000), R(24000)}

Kosten_jaehrlich == {R(0), R(1200)}

Grenzsteuersaetze == {R(0), R(25), R(42)}

Sonstige_Werbungskosten == {R(0), R(300)}

Steuerdaten ==
    [kaufpreis : Steuer_Kaufpreise,
     gebaeude_anteil_prozent : Steuer_Gebaeudeanteile,
     afa_typ : DOMAIN AfATyp,
     zinsen_jaehrlich : Zinsen_jaehrlich,
     mieteinnahmen_jaehrlich : Mieteinnahmen_jaehrlich,
     nicht_umlegbare_kosten_jaehrlich : Kosten_jaehrlich,
     grenzsteuersatz_prozent : Grenzsteuersaetze,
     sonstige_werbungskosten : Sonstige_Werbungskosten]

\* the tax on the result, without the change of sign
Steuervorteil_OhneVorzeichen(steuerliche_auswirkung) == steuerliche_auswirkung

\* line 144
Steuervorteil(steuerliche_auswirkung) == Sub(Zero, steuerliche_auswirkung)

\* lines 118-154
berechne_steuerliche_absetzbarkeit(daten) ==
    LET afa_betrag == berechne_afa(daten.kaufpreis, daten.gebaeude_anteil_prozent,
                                   daten.afa_typ)
        absetzbare_zinsen == daten.zinsen_jaehrlich
        werbungskosten ==
            Add(Add(Add(afa_betrag, absetzbare_zinsen),
                    daten.nicht_umlegbare_kosten_jaehrlich),
                daten.sonstige_werbungskosten)
        einkuenfte_aus_vv == Sub(daten.mieteinnahmen_jaehrlich, werbungskosten)
        steuerliche_auswirkung ==
            Div(Mul(einkuenfte_aus_vv, daten.grenzsteuersatz_prozent), Hundert)
        steuervorteil == Steuervorteil(steuerliche_auswirkung)
    IN  [afa_betrag |-> afa_betrag,
         absetzbare_zinsen |-> absetzbare_zinsen,
         werbungskosten |-> werbungskosten,
         einkuenfte_aus_vv |-> einkuenfte_aus_vv,
         steuervorteil |-> steuervorteil,
         steuervorteil_monatlich |-> Div(steuervorteil, R(12))]

\* app.py 299-308
Steuer_Aufruf(daten) ==
    /\ pc = "idle"
    /\ ergebnis = Nichts
    /\ main = Nichts
    /\ ergebnis' = [fn |-> "berechne_steuerliche_absetzbarkeit", args |-> <<daten>>,
                    out |-> berechne_steuerliche_absetzbarkeit(daten)]
    /\ UNCHANGED <<pc, argumente, lokale, tilgungsplan, main>>

----------------------------------------------------------------------------
(* main, app.py 90-348: the widgets, then the calculators in a fixed order. *)

\* the values of the widgets of the sidebar (app.py 109-271), each within the
\* range of its widget.  With 12.5 % interest on these loans every interest
\* portion of a schedule is a multiple of 2^-21 and their sum has less than
\* 53 bits, so Series.mean (app.py 295) adds them without rounding in whatever
\* order it takes them.
Eingaben ==
    [kaufpreis : {R(300000)},
     bundesland : {"BAYERN", "BERLIN"},
     mit_makler : BOOLEAN,
     makler_prozent : {Rat(7, 2)},
     eigenkapital : {R(60000), R(316500), R(324000)},
     zinssatz : {Rat(25, 2)},
     tilgung : {Rat(5, 2), Rat(15, 2)},
     laufzeit : {5, 7},
     kaltmiete : {R(1000)},
     nicht_umlegbare_kosten : {R(100)},
     mietausfallwagnis : {R(2)},
     afa_typ : {"ALTBAU_AB_1925"},
     gebaeude_anteil : {R(75)},
     grenzsteuersatz : {R(0), R(35)},
     wertsteigerung : {R(-2), Rat(3, 2)}]

\* app.py 130-139: the slider is shown only with a broker, 3.57 stands otherwise
Maklerprozent(e) == IF e.mit_makler THEN e.makler_prozent ELSE Rat(357, 100)

\* tax_calculator.py 162: the default of notar_und_grundbuch_prozent
NotarStandard == R(2)

\* app.py 109-271: the sidebar.  The closing costs are computed in its middle
\* (142-149); the equity widget admits at most int(gesamtinvestition) (160).
Main_Eingaben(e) ==
    /\ pc = "idle"
    /\ ergebnis = Nichts
    /\ main = Nichts
    /\ \E nebenkosten_dict \in {berechne_nebenkosten_nach_bundesland(
                                   e.kaufpreis, e.bundesland, e.mit_makler,
                                   Maklerprozent(e), NotarStandard)} :
       \E gesamtinvestition \in {Add(e.kaufpreis, nebenkosten_dict.gesamt)} :
           /\ Le(e.eigenkapital, gesamtinvestition)
           /\ ergebnis' = [fn |-> "berechne_nebenkosten_nach_bundesland",
                           args |-> <<e.kaufpreis, e.bundesland, e.mit_makler,
                                      Maklerprozent(e), NotarStandard>>,
                           out |-> nebenkosten_dict]
           /\ main' = [zeile |-> "finanzierung",
                       eingaben |-> e,
                       nebenkosten_dict |-> nebenkosten_dict,
                       nebenkosten |-> nebenkosten_dict.gesamt,
                       gesamtinvestition |-> gesamtinvestition,
                       darlehensbetrag |-> Sub(gesamtinvestition, e.eigenkapital),
                       finanzierung |-> Nichts,
                       durchschnittliche_zinsen |-> Zero,
                       steuer_ergebnis |-> Nichts,
                       steuer_ergebnis_jahr1 |-> Nichts,
                       cashflow |-> Nichts,
                       renditen |-> Nichts,
                       vermoegen |-> Nichts]
    /\ UNCHANGED <<pc, argumente, lokale, tilgungsplan>>

\* app.py 277-282
Main_Finanzierung ==
    /\ main /= Nichts
    /\ main.zeile = "finanzierung"
    /\ \E args \in {<<main.darlehensbetrag, main.eingaben.zinssatz,
                      main.eingaben.tilgung, main.eingaben.laufzeit>>} :
       \E out \in {berechne_annuitaet(args[1], args[2], args[3], args[4])} :
           /\ ergebnis' = [fn |-> "berechne_annuitaet", args |-> args, out |-> out]
           /\ main' = [main EXCEPT !.zeile = "tilgungsplan", !.finanzierung = out]
    /\ UNCHANGED <<pc, argumente, lokale, tilgungsplan>>

\* app.py 285-290: the call; its loop runs next
Main_Tilgungsplan ==
    /\ main /= Nichts
    /\ main.zeile = "tilgungsplan"
    /\ Tilgungsplan_Anfang(main.darlehensbetrag, main.eingaben.zinssatz,
                           main.eingaben.tilgung, main.eingaben.laufzeit)
    /\ main' = [main EXCEPT !.zeile = "steuer"]
    /\ UNCHANGED ergebnis

\* the sum as Series.mean takes it when it adds from the first row on
RECURSIVE Summe(_, _)
Summe(werte, i) == IF i = 0 THEN Zero ELSE Add(Summe(werte, i - 1), werte[i])

\* app.py 295: Series.mean of the column Zinsanteil
Mittelwert(plan) ==
    Div(Summe([i \in 1 .. Len(plan) |-> plan[i].Zinsanteil], Len(plan)), R(Len(plan)))

\* app.py 294-298
DurchschnittlicheZinsen(plan) == IF Len(plan) > 0 THEN Mittelwert(plan) ELSE Zero

\* app.py 315
ZinsenJahr1(plan) == IF Len(plan) > 0 THEN plan[1].Zinsanteil ELSE Zero

\* app.py 299-307, 311-319: the Steuerdaten of main, sonstige_werbungskosten
\* at its default 0.0 (tax_calculator.py 72)
Main_Steuerdaten(e, zinsen) ==
    [kaufpreis |-> e.kaufpreis,
     gebaeude_anteil_prozent |-> e.gebaeude_anteil,
     afa_typ |-> e.afa_typ,
     zinsen_jaehrlich |-> zinsen,
     mieteinnahmen_jaehrlich |-> Mul(e.kaltmiete, R(12)),
     nicht_umlegbare_kosten_jaehrlich |-> Mul(e.nicht_umlegbare_kosten, R(12)),
     grenzsteuersatz_prozent |-> e.grenzsteuersatz,
     sonstige_werbungskosten |-> Zero]

\* app.py 294-308: the schedule has returned
Main_Steuer ==
    /\ main /= Nichts
    /\ main.zeile = "steuer"
    /\ pc = "done"
    /\ \E zinsen \in {DurchschnittlicheZinsen(tilgungsplan)} :
       \E daten \in {Main_Steuerdaten(main.eingaben, zinsen)} :
       \E out \in {berechne_steuerliche_absetzbarkeit(daten)} :
           /\ ergebnis' = [fn |-> "berechne_steuerliche_absetzbarkeit",
                           args |-> <<daten>>, out |-> out]
           /\ main' = [main EXCEPT !.zeile = "steuer_jahr1",
                                   !.durchschnittliche_zinsen = zinsen,
                                   !.steuer_ergebnis = out]
    /\ UNCHANGED <<pc, argumente, lokale, tilgungsplan>>

\* app.py 311-320
Main_SteuerJahr1 ==
    /\ main /= Nichts
    /\ main.zeile = "steuer_jahr1"
    /\ \E daten \in {Main_Steuerdaten(main.eingaben, ZinsenJahr1(tilgungsplan))} :
       \E out \in {berechne_steuerliche_absetzbarkeit(daten)} :
           /\ ergebnis' = [fn |-> "berechne_steuerliche_absetzbarkeit",
                           args |-> <<daten>>, out |-> out]
           /\ main' = [main EXCEPT !.zeile = "cashflow",
                                   !.steuer_ergebnis_jahr1 = out]
    /\ UNCHANGED <<pc, argumente, lokale, tilgungsplan>>

\* app.py 323-329
Main_Cashflow ==
    /\ main /= Nichts
    /\ main.zeile = "cashflow"
    /\ \E args \in {<<main.eingaben.kaltmiete, main.eingaben.nicht_umlegbare_kosten,
                      main.eingaben.mietausfallwagnis,
                      main.finanzierung.monatliche_rate,
                      main.steuer_ergebnis.steuervorteil_monatlich>>} :
       \E out \in {berechne_cashflow(args[1], args[2], args[3], args[4], args[5])} :
           /\ ergebnis' = [fn |-> "berechne_cashflow", args |-> args, out |-> out]
           /\ main' = [main EXCEPT !.zeile = "renditen", !.cashflow = out]
    /\ UNCHANGED <<pc, argumente, lokale, tilgungsplan>>

\* app.py 332-339
Main_Renditen ==
    /\ main /= Nichts
    /\ main.zeile = "renditen"
    /\ \E args \in {<<main.eingaben.kaufpreis, main.nebenkosten,
                      main.eingaben.eigenkapital,
                      main.cashflow.brutto_mieteinnahmen,
                      main.cashflow.netto_mieteinnahmen,
                      main.cashflow.cashflow_nach_steuern>>} :
       \E out \in {berechne_renditen(args[1], args[2], args[3], args[4], args[5],
                                     args[6])} :
           /\ ergebnis' = [fn |-> "berechne_renditen", args |-> args, out |-> out]
           /\ main' = [main EXCEPT !.zeile = "vermoegen", !.renditen = out]
    /\ UNCHANGED <<pc, argumente, lokale, tilgungsplan>>

\* app.py 342-348
Main_Vermoegen ==
    /\ main /= Nichts
    /\ main.zeile = "vermoegen"
    /\ \E args \in {<<main.eingaben.eigenkapital, main.cashflow.cashflow_nach_steuern,
                      main.eingaben.wertsteigerung, main.eingaben.kaufpreis>>} :
       \E out \in {berechne_vermoegensaufbau(args[1], tilgungsplan, args[2],
                                             args[3], args[4])} :
           /\ ergebnis' = [fn |-> "berechne_vermoegensaufbau", args |-> args,
                           out |-> out]
           /\ main' = [main EXCEPT !.zeile = "ende", !.vermoegen = out]
    /\ UNCHANGED <<pc, argumente, lokale, tilgungsplan>>

----------------------------------------------------------------------------
(* A run ends and the next begins: Streamlit executes main anew, a caller  *)
(* of the engine starts over.  No call is left half-way.                   *)

Rerun ==
    /\ \/ main /= Nichts /\ main.zeile = "ende"
       \/ main = Nichts /\ pc = "done"
       \/ main = Nichts /\ pc = "idle" /\ ergebnis /= Nichts
    /\ pc' = "idle"
    /\ darlehensbetrag' = Zero
    /\ zinssatz_prozent' = Zero
    /\ tilgung_prozent' = Zero
    /\ laufzeit_jahre' = 0
    /\ zinssatz' = Zero
    /\ annuitaet' = Zero
    /\ jahr' = 1
    /\ restschuld' = Zero
    /\ zinsen_kumuliert' = Zero
    /\ tilgung_kumuliert' = Zero
    /\ tilgungsplan' = << >>
    /\ ergebnis' = Nichts
    /\ main' = Nichts

Next ==
    \/ \E e \in Eingaben : Main_Eingaben(e)
    \/ Main_Finanzierung
    \/ Main_Tilgungsplan
    \/ Main_Steuer
    \/ Main_SteuerJahr1
    \/ Main_Cashflow
    \/ Main_Renditen
    \/ Main_Vermoegen
    \/ \E l \in Darlehen : Tilgungsplan_Aufruf(l[1], l[2], l[3], l[4])
    \/ Tilgungsplan_NachAnnuitaet
    \/ Tilgungsplan_Jahr
    \/ Tilgungsplan_Break
    \/ Tilgungsplan_Ende
    \/ \E l \in Darlehen : Annuitaet_Aufruf(l[1], l[2], l[3], l[4])
    \/ \E k \in Kaufpreise, nk \in Nebenkosten, ek \in Eigenkapitale,
          b \in Zaehler, nm \in Zaehler, cf \in Zaehler :
           Renditen_Aufruf(k, nk, ek, b, nm, cf)
    \/ \E ek \in Vermoegen_Eigenkapitale, cf \in Vermoegen_Cashflows,
          w \in Wertsteigerungen, k \in Vermoegen_Kaufpreise :
           Vermoegensaufbau_Aufruf(ek, cf, w, k)
    \/ \E k \in Nebenkosten_Kaufpreise, bl \in DOMAIN Bundesland, mm \in BOOLEAN,
          mp \in Maklerprozente, np \in Notarprozente :
           Nebenkosten_Aufruf(k, bl, mm, mp, np)
    \/ \E daten \in Steuerdaten :
           Steuer_Aufruf(daten)
    \/ \E km \in Kaltmieten, nk \in Kosten_monatlich, mw \in Mietausfallwagnisse,
          mr \in Monatsraten, sv \in Steuervorteile_monatlich :
           Cashflow_Aufruf(km, nk, mw, mr, sv)
    \/ Rerun

Spec == Init /\ [][Next]_vars

\* the interpreter runs a started call of berechne_tilgungsplan to its return
FairSpec ==
    Spec /\ WF_vars(Tilgungsplan_Jahr \/ Tilgungsplan_Break \/ Tilgungsplan_Ende)

----------------------------------------------------------------------------
(* Properties.                                                             *)

\* the relative tolerance of a comparison of two floats: 2^-40
Toleranz == [neg |-> FALSE, man |-> <<1>>, exp |-> -40]

\* |a|
Betrag(a) == [a EXCEPT !.neg = FALSE]

\* a = b within the tolerance: |a - b| <= 2^-40 * max(|a|, |b|), the two sides
\* computed without rounding
Nahe(a, b) == Le(Betrag(XSub(a, b)), XMul(Toleranz, Max(Betrag(a), Betrag(b))))

\* a <= b within the tolerance
KaumMehr(a, b) == Le(a, b) \/ Nahe(a, b)

\* the rounding unit of a float relative to its value: 2^-52, the distance from
\* 1.0 to the next float
Einheit == [neg |-> FALSE, man |-> <<1>>, exp |-> -52]

\* the room the roundings of k rows have at the magnitude m: two rounding
\* units of m for each row, k * 2^-51 * |m|, computed without rounding
Spielraum(k, m) == XMul(XMul(R(2 * k), Einheit), Betrag(m))

\* the preconditions of LoanTerms on the arguments of the current call
ZinsNichtNegativ == Le(Zero, zinssatz_prozent)

TilgungPositiv == Lt(Zero, tilgung_prozent)

\* the constant annuity principal * (rate + amortization)/100 of the current call
Rate == Div(Mul(darlehensbetrag, Add(zinssatz_prozent, tilgung_prozent)), Hundert)

\* the annuity exceeds the interest of a year on the whole principal, both as
\* the floats the code computes.  In exact arithmetic this is amortization
\* rate > 0 for a principal > 0.
RateUeberZins == Lt(Mul(darlehensbetrag, Div(zinssatz_prozent, Hundert)), Rate)

LoanTerms ==
    /\ Lt(Zero, darlehensbetrag)
    /\ ZinsNichtNegativ
    /\ TilgungPositiv
    /\ laufzeit_jahre > 0

Zeilen == 1 .. Len(tilgungsplan)

\* the balance at the start of the year of row i
Anfangssaldo(i) == IF i = 1 THEN darlehensbetrag ELSE tilgungsplan[i - 1].Restschuld

\* some row within the term has the remaining balance 0
SaldoErreichtNull ==
    \E i \in Zeilen :
        /\ tilgungsplan[i].Restschuld = Zero
        /\ tilgungsplan[i].Jahr <= laufzeit_jahre

\* C1 as stated: for principal > 0, rate >= 0, amortization rate > 0 and
\* term_years > 0 the returned schedule has a row with year index <= term_years
\* whose remaining balance is exactly 0.
C1_Original == (pc = "done" /\ LoanTerms) => SaldoErreichtNull

\* C1, amended: for principal > 0, rate >= 0, amortization rate > 0 and
\* term_years > 0 the returned schedule either has a row with year index
\* <= term_years whose remaining balance is exactly 0, or it has exactly
\* term_years rows and the remaining balance of every row is > 0.
C1_Tilgung ==
    (pc = "done" /\ LoanTerms) =>
        \/ SaldoErreichtNull
        \/ /\ Len(tilgungsplan) = laufzeit_jahre
           /\ \A i \in Zeilen : Lt(Zero, tilgungsplan[i].Restschuld)

\* a returned schedule of several years that ends with a debt
C1_Witness ==
    /\ pc = "done"
    /\ LoanTerms
    /\ laufzeit_jahre >= 3
    /\ Len(tilgungsplan) = laufzeit_jahre
    /\ Lt(Zero, tilgungsplan[Len(tilgungsplan)].Restschuld)

\* the balance column is >= 0 and non-increasing, starting from the principal
SaldoMonoton ==
    \A i \in Zeilen :
        /\ Le(Zero, tilgungsplan[i].Restschuld)
        /\ Le(tilgungsplan[i].Restschuld, Anfangssaldo(i))

\* C2 as stated: in every schedule the remaining balance of each row is >= 0,
\* <= that of the previous row, and the first one is <= the principal.
C2_Original == SaldoMonoton

\* C2, amended: in every schedule produced with rate >= 0, amortization rate
\* > 0 and an annuity that, as a float, exceeds the interest of a year on the
\* whole principal, the remaining balance of each row is >= 0, <= that of the
\* previous row, and the first one is <= the principal.
C2_SaldoMonoton ==
    (ZinsNichtNegativ /\ TilgungPositiv /\ RateUeberZins) => SaldoMonoton

\* a schedule of three rows or more within the preconditions whose balance
\* goes down from the second row to the third
C2_Witness ==
    /\ ZinsNichtNegativ
    /\ TilgungPositiv
    /\ RateUeberZins
    /\ Len(tilgungsplan) >= 3
    /\ Lt(tilgungsplan[3].Restschuld, tilgungsplan[2].Restschuld)

\* the principal portion of row i is min(annuity - interest portion, balance
\* at the start of the year)
TilgungIstMin(i) ==
    tilgungsplan[i].Tilgungsanteil
        = Min(Sub(annuitaet, tilgungsplan[i].Zinsanteil), Anfangssaldo(i))

TilgungHoechstensSaldo(i) == Le(tilgungsplan[i].Tilgungsanteil, Anfangssaldo(i))

TilgungNichtNegativ(i) == Le(Zero, tilgungsplan[i].Tilgungsanteil)

\* C3 as stated: in every schedule the principal portion of each row equals
\* min(annuity - interest portion, balance at the start of the year), is never
\* negative and never exceeds the balance at the start of the year.
C3_Original ==
    \A i \in Zeilen :
        TilgungIstMin(i) /\ TilgungNichtNegativ(i) /\ TilgungHoechstensSaldo(i)

\* C3, amended: in every schedule the principal portion of each row equals
\* min(annuity - interest portion, balance at the start of the year) and never
\* exceeds the balance at the start of the year; it is never negative when
\* rate >= 0, amortization rate > 0 and the annuity, as a float, exceeds the
\* interest of a year on the whole principal.
C3_Tilgungsanteil ==
    \A i \in Zeilen :
        /\ TilgungIstMin(i)
        /\ TilgungHoechstensSaldo(i)
        /\ (ZinsNichtNegativ /\ TilgungPositiv /\ RateUeberZins) =>
               TilgungNichtNegativ(i)

\* the last payment is capped: annuity - interest would overshoot the balance
C3_Witness ==
    /\ ZinsNichtNegativ
    /\ TilgungPositiv
    /\ RateUeberZins
    /\ \E i \in Zeilen :
           /\ i >= 2
           /\ Lt(Anfangssaldo(i), Sub(annuitaet, tilgungsplan[i].Zinsanteil))
           /\ tilgungsplan[i].Tilgungsanteil = Anfangssaldo(i)

\* the final row of the schedule has the remaining balance 0
LetzteZeileGetilgt ==
    /\ Len(tilgungsplan) > 0
    /\ tilgungsplan[Len(tilgungsplan)].Restschuld = Zero

ZinsenKumuliertMonoton ==
    \A i \in Zeilen :
        i > 1 => Le(tilgungsplan[i - 1].Zinsen_kumuliert, tilgungsplan[i].Zinsen_kumuliert)

TilgungKumuliertMonoton ==
    \A i \in Zeilen :
        i > 1 => Le(tilgungsplan[i - 1].Tilgung_kumuliert, tilgungsplan[i].Tilgung_kumuliert)

\* C5 as stated: in every schedule the cumulative interest column and the
\* cumulative principal column are each non-decreasing from row to row.
C5_Original == ZinsenKumuliertMonoton /\ TilgungKumuliertMonoton

\* C5, amended: in every schedule produced with rate >= 0 the cumulative
\* interest column is non-decreasing from row to row, and in every schedule
\* produced with rate >= 0, amortization rate > 0 and an annuity that, as a
\* float, exceeds the interest of a year on the whole principal, so is the
\* cumulative principal column.
C5_KumuliertMonoton ==
    /\ ZinsNichtNegativ => ZinsenKumuliertMonoton
    /\ (ZinsNichtNegativ /\ TilgungPositiv /\ RateUeberZins) =>
           TilgungKumuliertMonoton

\* both cumulative columns grow strictly over three rows
C5_Witness ==
    /\ ZinsNichtNegativ
    /\ TilgungPositiv
    /\ RateUeberZins
    /\ Len(tilgungsplan) >= 3
    /\ Lt(tilgungsplan[2].Zinsen_kumuliert, tilgungsplan[3].Zinsen_kumuliert)
    /\ Lt(tilgungsplan[2].Tilgung_kumuliert, tilgungsplan[3].Tilgung_kumuliert)

\* C6: for every input of berechne_annuitaet the returned gesamtkosten is
\* >= the principal, the returned zinsen_gesamt is >= 0, and zinsen_gesamt
\* equals the returned gesamtkosten minus the principal.
C6_Gesamtkosten ==
    ergebnis.fn = "berechne_annuitaet" =>
        /\ Le(ergebnis.args[1], ergebnis.out.gesamtkosten)
        /\ Le(Zero, ergebnis.out.zinsen_gesamt)
        /\ ergebnis.out.zinsen_gesamt = Sub(ergebnis.out.gesamtkosten, ergebnis.args[1])

\* a call whose payments over the term stay below the principal: both floors act
C6_Witness ==
    /\ ergebnis.fn = "berechne_annuitaet"
    /\ Lt(Zero, ergebnis.args[1])
    /\ ergebnis.args[4] >= 1
    /\ Lt(Zero, ergebnis.out.jaehrliche_rate)
    /\ Lt(Mul(ergebnis.out.jaehrliche_rate, R(ergebnis.args[4])), ergebnis.args[1])
    /\ ergebnis.out.gesamtkosten = ergebnis.args[1]
    /\ ergebnis.out.zinsen_gesamt = Zero

\* C7: berechne_renditen raises no division-by-zero error and returns exactly
\* 0 for a ratio whenever that ratio's denominator is <= 0, for any numerator:
\* gross yield when price <= 0; net yield, asset-level return and cash-flow
\* return when price + closing costs <= 0; equity return when equity <= 0.
C7_Renditen ==
    ergebnis.fn = "berechne_renditen" =>
        LET kaufpreis == ergebnis.args[1]
            gesamtinvestition == Add(ergebnis.args[1], ergebnis.args[2])
            eigenkapital == ergebnis.args[3]
        IN  /\ ergebnis.out.raised = ""
            /\ Le(kaufpreis, Zero) => ergebnis.out.brutto_mietrendite = Zero
            /\ Le(gesamtinvestition, Zero) =>
                   /\ ergebnis.out.netto_mietrendite = Zero
                   /\ ergebnis.out.objektrendite = Zero
                   /\ ergebnis.out.cashflow_rendite = Zero
            /\ Le(eigenkapital, Zero) => ergebnis.out.eigenkapitalrendite = Zero

\* a call in which every denominator is negative and every numerator is not 0
C7_Witness ==
    /\ ergebnis.fn = "berechne_renditen"
    /\ Lt(ergebnis.args[1], Zero)
    /\ Lt(Add(ergebnis.args[1], ergebnis.args[2]), Zero)
    /\ Lt(ergebnis.args[3], Zero)
    /\ ergebnis.args[4] /= Zero
    /\ ergebnis.args[5] /= Zero
    /\ ergebnis.args[6] /= Zero
    /\ ergebnis.out.raised = ""
    /\ ergebnis.out.brutto_mietrendite = Zero

\* C8: whenever the schedule passed to berechne_vermoegensaufbau is empty the
\* result is an empty projection and no error is raised; and
\* berechne_tilgungsplan returns an empty schedule when term_years = 0 or when
\* principal = 0.
C8_LeererPlan ==
    /\ (ergebnis.fn = "berechne_vermoegensaufbau" /\ Len(tilgungsplan) = 0) =>
           /\ ergebnis.out.raised = ""
           /\ ergebnis.out.rows = << >>
    /\ (pc = "done" /\ (laufzeit_jahre = 0 \/ darlehensbetrag = Zero)) =>
           tilgungsplan = << >>

\* the projector was called with the empty schedule of a loan of principal 0
\* over a term of several years
C8_Witness ==
    /\ ergebnis.fn = "berechne_vermoegensaufbau"
    /\ pc = "done"
    /\ darlehensbetrag = Zero
    /\ laufzeit_jahre >= 2
    /\ tilgungsplan = << >>
    /\ ergebnis.out.rows = << >>

\* C9: berechne_tilgungsplan always terminates, and its schedule has at most
\* term_years rows whose year indices are 1, 2, ..., N in order.
C9_Terminiert ==
    /\ [](/\ Len(tilgungsplan) <= laufzeit_jahre
          /\ \A i \in Zeilen : tilgungsplan[i].Jahr = i)
    /\ (pc = "loop") ~> (pc = "done")

\* a call returned a schedule with as many rows as the term has years
C9_Witness ==
    /\ pc = "done"
    /\ laufzeit_jahre >= 3
    /\ Len(tilgungsplan) = laufzeit_jahre
    /\ tilgungsplan[laufzeit_jahre].Jahr = laufzeit_jahre

\* C10: no row follows a row whose remaining balance is 0: only the last row
\* of a schedule can have the remaining balance 0, also when term_years is not
\* exhausted.
C10_KeineZeileNachNull ==
    \A i \in Zeilen :
        tilgungsplan[i].Restschuld = Zero => i = Len(tilgungsplan)

\* an early payoff: the returned schedule ends with the balance 0 and has
\* fewer rows than the term has years
C10_Witness ==
    /\ pc = "done"
    /\ Len(tilgungsplan) >= 2
    /\ Len(tilgungsplan) < laufzeit_jahre
    /\ tilgungsplan[Len(tilgungsplan)].Restschuld = Zero

\* berechne_vermoegensaufbau returned a projection of a non-empty schedule
VermoegenErgebnis ==
    /\ ergebnis.fn = "berechne_vermoegensaufbau"
    /\ Len(tilgungsplan) > 0
    /\ ergebnis.out.raised = ""

\* C11: when the purchase price passed to berechne_vermoegensaufbau is <= 0
\* the property value before the first compounding step is the loan's original
\* principal plus the initial equity, so the first row's property value is
\* (principal + equity) * (1 + appreciation/100); when the price is > 0 it
\* starts at the price.
C11_Original ==
    VermoegenErgebnis =>
        LET eigenkapital == ergebnis.args[1]
            wertsteigerung_prozent == ergebnis.args[3]
            kaufpreis == ergebnis.args[4]
            start == IF Lt(Zero, kaufpreis) THEN kaufpreis
                     ELSE Add(darlehensbetrag, eigenkapital)
        IN  ergebnis.out.rows[1].Immobilienwert =
                Wertsteigerung(start, wertsteigerung_prozent)

\* berechne_nebenkosten_nach_bundesland returned
NebenkostenErgebnis == ergebnis.fn = "berechne_nebenkosten_nach_bundesland"

\* C12 as stated: berechne_nebenkosten_nach_bundesland rejects a non-positive
\* purchase price: for a price <= 0 it yields an error outcome instead of a
\* cost breakdown.
C12_Original ==
    (NebenkostenErgebnis /\ Le(ergebnis.args[1], Zero)) =>
        ergebnis.out.raised /= ""

\* C12, amended: berechne_nebenkosten_nach_bundesland does not validate the
\* purchase price: for a price <= 0 it raises no error and returns the
\* breakdown, whose three cost items are each price * percentage / 100 and
\* whose total is therefore <= 0 (0 for price 0) when the percentages are not
\* negative.
C12_KeineValidierung ==
    (NebenkostenErgebnis /\ Le(ergebnis.args[1], Zero)) =>
        /\ ergebnis.out.raised = ""
        /\ ergebnis.out.grunderwerbsteuer =
               Div(Mul(ergebnis.args[1], Bundesland[ergebnis.args[2]]), Hundert)
        /\ ergebnis.out.notar_und_grundbuch =
               Div(Mul(ergebnis.args[1], ergebnis.args[5]), Hundert)
        /\ Le(ergebnis.out.grunderwerbsteuer, Zero)
        /\ Le(ergebnis.out.notar_und_grundbuch, Zero)
        /\ Le(ergebnis.out.makler, Zero)
        /\ Le(ergebnis.out.gesamt, Zero)
        /\ ergebnis.args[1] = Zero => ergebnis.out.gesamt = Zero

\* a call with a negative price returned a breakdown with a negative total
C12_Witness ==
    /\ NebenkostenErgebnis
    /\ Lt(ergebnis.args[1], Zero)
    /\ ergebnis.out.raised = ""
    /\ Lt(ergebnis.out.gesamt, Zero)
    /\ Lt(ergebnis.out.grunderwerbsteuer, Zero)

\* C14: for principal 240000, rate 3.5 %, amortization 2.0 % and term 30,
\* berechne_annuitaet returns the annual payment 13200, and the first row of
\* berechne_tilgungsplan has the interest portion 8400, which is the balance at
\* the start of the year times rate/100, the principal portion 4800 and the
\* remaining balance 235200.
C14_Szenario ==
    /\ (ergebnis.fn = "berechne_annuitaet" /\ ergebnis.args = Szenario) =>
           ergebnis.out.jaehrliche_rate = R(13200)
    /\ (argumente = Szenario /\ Len(tilgungsplan) >= 1) =>
           /\ tilgungsplan[1].Zinsanteil = R(8400)
           /\ tilgungsplan[1].Zinsanteil =
                  Mul(Anfangssaldo(1), Div(zinssatz_prozent, Hundert))
           /\ tilgungsplan[1].Tilgungsanteil = R(4800)
           /\ tilgungsplan[1].Restschuld = R(235200)

\* the caller holds the summary of the scenario loan and the first row of its
\* 30-year schedule
C14_Witness ==
    /\ ergebnis.fn = "berechne_annuitaet"
    /\ ergebnis.args = Szenario
    /\ argumente = Szenario
    /\ laufzeit_jahre = 30
    /\ Len(tilgungsplan) >= 1
    /\ tilgungsplan[1].Jahr = 1
    /\ tilgungsplan[1].Restschuld = R(235200)

\* berechne_steuerliche_absetzbarkeit returned
SteuerErgebnis == ergebnis.fn = "berechne_steuerliche_absetzbarkeit"

\* C15: berechne_steuerliche_absetzbarkeit returns total deductible expenses =
\* depreciation + interest + non-recoverable costs + other costs, taxable
\* result = rental income - total deductible expenses, and tax effect =
\* -(taxable result * marginal rate / 100); hence for a marginal rate > 0 the
\* tax effect is strictly positive exactly when the taxable result is negative
\* and strictly negative exactly when it is positive; the monthly tax effect is
\* the annual one divided by 12.
C15_Steuer ==
    SteuerErgebnis =>
        LET daten == ergebnis.args[1]
            out == ergebnis.out
        IN  /\ out.werbungskosten =
                   Add(Add(Add(out.afa_betrag, daten.zinsen_jaehrlich),
                           daten.nicht_umlegbare_kosten_jaehrlich),
                       daten.sonstige_werbungskosten)
            /\ out.absetzbare_zinsen = daten.zinsen_jaehrlich
            /\ out.einkuenfte_aus_vv =
                   Sub(daten.mieteinnahmen_jaehrlich, out.werbungskosten)
            /\ out.steuervorteil =
                   Neg(Div(Mul(out.einkuenfte_aus_vv, daten.grenzsteuersatz_prozent),
                           Hundert))
            /\ Lt(Zero, daten.grenzsteuersatz_prozent) =>
                   /\ Lt(Zero, out.steuervorteil) <=> Lt(out.einkuenfte_aus_vv, Zero)
                   /\ Lt(out.steuervorteil, Zero) <=> Lt(Zero, out.einkuenfte_aus_vv)
            /\ out.steuervorteil_monatlich = Div(out.steuervorteil, R(12))

\* a taxable loss at a marginal rate > 0 returned a positive tax effect
C15_Witness ==
    /\ SteuerErgebnis
    /\ Lt(Zero, ergebnis.args[1].grenzsteuersatz_prozent)
    /\ Lt(Zero, ergebnis.args[1].sonstige_werbungskosten)
    /\ Lt(ergebnis.out.einkuenfte_aus_vv, Zero)
    /\ Lt(Zero, ergebnis.out.steuervorteil)
    /\ Lt(Zero, ergebnis.out.steuervorteil_monatlich)

\* the four rates of the depreciation classes
C16_Saetze == {Rat(5, 2), R(2), R(3), R(9)}

\* C16: berechne_afa returns price * building share/100 * class rate/100,
\* where the class rate is one of exactly four fixed rates (2.5, 2.0, 3.0, 9.0)
\* selected by the AfATyp enumeration; for price 300000, building share 75 %
\* and the 2.0 % class the result is 4500.  berechne_afa is called by
\* berechne_steuerliche_absetzbarkeit, which returns its result as afa_betrag.
C16_Afa ==
    /\ Cardinality(DOMAIN AfATyp) = 4
    /\ {AfATyp[typ] : typ \in DOMAIN AfATyp} = C16_Saetze
    /\ SteuerErgebnis =>
           LET daten == ergebnis.args[1]
           IN  /\ daten.afa_typ \in DOMAIN AfATyp
               /\ \E satz \in C16_Saetze :
                      /\ satz = AfATyp[daten.afa_typ]
                      /\ ergebnis.out.afa_betrag =
                             Div(Mul(Div(Mul(daten.kaufpreis,
                                             daten.gebaeude_anteil_prozent), Hundert),
                                     satz), Hundert)
               /\ (/\ daten.kaufpreis = R(300000)
                   /\ daten.gebaeude_anteil_prozent = R(75)
                   /\ AfATyp[daten.afa_typ] = R(2)) => ergebnis.out.afa_betrag = R(4500)

\* the scenario: 300000, 75 %, the 2.0 % class, depreciation 4500
C16_Witness ==
    /\ SteuerErgebnis
    /\ ergebnis.args[1].kaufpreis = R(300000)
    /\ ergebnis.args[1].gebaeude_anteil_prozent = R(75)
    /\ ergebnis.args[1].afa_typ = "ALTBAU_AB_1925"
    /\ ergebnis.out.afa_betrag = R(4500)

\* C17: berechne_cashflow returns gross rent = monthly rent * 12, net rent =
\* gross rent - gross rent * vacancy %/100 - monthly non-recoverable * 12,
\* pre-tax cash flow = net rent - monthly payment * 12, and post-tax cash flow
\* = pre-tax cash flow + monthly tax effect * 12; for a gross rent of 12000 a
\* year, vacancy 2 % and non-recoverable costs of 1200 a year the net rent is
\* 10560.
C17_Cashflow ==
    ergebnis.fn = "berechne_cashflow" =>
        LET kaltmiete == ergebnis.args[1]
            kosten == ergebnis.args[2]
            wagnis == ergebnis.args[3]
            rate == ergebnis.args[4]
            steuer == ergebnis.args[5]
            out == ergebnis.out
            zwoelf == R(12)
        IN  /\ out.brutto_mieteinnahmen = Mul(kaltmiete, zwoelf)
            /\ out.netto_mieteinnahmen =
                   Sub(Sub(out.brutto_mieteinnahmen,
                           Div(Mul(out.brutto_mieteinnahmen, wagnis), Hundert)),
                       Mul(kosten, zwoelf))
            /\ out.cashflow_vor_steuern =
                   Sub(out.netto_mieteinnahmen, Mul(rate, zwoelf))
            /\ out.cashflow_nach_steuern =
                   Add(out.cashflow_vor_steuern, Mul(steuer, zwoelf))
            /\ (/\ out.brutto_mieteinnahmen = R(12000)
                /\ wagnis = R(2)
                /\ Mul(kosten, zwoelf) = R(1200)) =>
                   out.netto_mieteinnahmen = R(10560)

\* the scenario call, with a loan payment and a tax effect that are not 0
C17_Witness ==
    /\ ergebnis.fn = "berechne_cashflow"
    /\ ergebnis.args[1] = R(1000)
    /\ ergebnis.args[2] = R(100)
    /\ ergebnis.args[3] = R(2)
    /\ ergebnis.args[4] /= Zero
    /\ ergebnis.args[5] /= Zero
    /\ ergebnis.out.brutto_mieteinnahmen = R(12000)
    /\ ergebnis.out.netto_mieteinnahmen = R(10560)

\* the rows of the projection but for the cumulative cash flow: as many rows as
\* the schedule has, year index and remaining debt of schedule row k, net
\* equity = property value - remaining debt, total wealth = net equity +
\* cumulative cash flow
VermoegenZeilen ==
    LET rows == ergebnis.out.rows
    IN  /\ Len(rows) = Len(tilgungsplan)
        /\ \A k \in 1 .. Len(rows) :
               /\ rows[k].Jahr = tilgungsplan[k].Jahr
               /\ rows[k].Restschuld = tilgungsplan[k].Restschuld
               /\ rows[k].Nettovermoegen =
                      Sub(rows[k].Immobilienwert, tilgungsplan[k].Restschuld)
               /\ rows[k].Gesamtvermoegen =
                      Add(rows[k].Nettovermoegen, rows[k].Cashflow_kumuliert)

C19_Wertsteigerung ==
    (VermoegenErgebnis /\ Lt(Zero, ergebnis.args[4])) =>
        LET rows == ergebnis.out.rows
            faktor == Add(R(1), Div(ergebnis.args[3], Hundert))
            kaufpreis == ergebnis.args[4]
        IN  \A k \in 1 .. Len(rows) :
                rows[k].Immobilienwert =
                    Mul(IF k = 1 THEN kaufpreis ELSE rows[k - 1].Immobilienwert,
                        faktor)

\* a projection over at least three years from a price > 0, the value of the
\* first row already differing from the price
C19_Witness ==
    /\ VermoegenErgebnis
    /\ Lt(Zero, ergebnis.args[4])
    /\ Len(ergebnis.out.rows) >= 3
    /\ ergebnis.out.rows[1].Immobilienwert /= ergebnis.args[4]
    /\ ergebnis.out.rows[3].Immobilienwert /= ergebnis.out.rows[2].Immobilienwert

\* C20: berechne_nebenkosten_nach_bundesland applies the broker commission
\* only when the uses-broker flag is set: otherwise the broker cost is 0 and
\* contributes 0 to the total percentage, whatever commission percentage is
\* passed; the returned total equals transfer tax + notary/registration +
\* broker cost, and the total percentage equals the region's transfer-tax rate
\* + notary percentage + applied broker percentage.
C20_Makler ==
    NebenkostenErgebnis =>
        LET kaufpreis == ergebnis.args[1]
            satz == Bundesland[ergebnis.args[2]]
            mit_makler == ergebnis.args[3]
            makler_prozent == ergebnis.args[4]
            notar_prozent == ergebnis.args[5]
            out == ergebnis.out
        IN  /\ ~mit_makler =>
                   /\ out.makler = Zero
                   /\ out.gesamt_prozent = Add(satz, notar_prozent)
            /\ mit_makler =>
                   /\ out.makler = Div(Mul(kaufpreis, makler_prozent), Hundert)
                   /\ out.gesamt_prozent =
                          Add(Add(satz, notar_prozent), makler_prozent)
            /\ out.grunderwerbsteuer_satz = satz
            /\ out.gesamt =
                   Add(Add(out.grunderwerbsteuer, out.notar_und_grundbuch), out.makler)

\* a purchase without a broker, a commission of more than 0 % passed all the same
C20_Witness ==
    /\ NebenkostenErgebnis
    /\ Lt(Zero, ergebnis.args[1])
    /\ ~ergebnis.args[3]
    /\ Lt(Zero, ergebnis.args[4])
    /\ ergebnis.out.makler = Zero
    /\ ergebnis.out.gesamt =
           Add(ergebnis.out.grunderwerbsteuer, ergebnis.out.notar_und_grundbuch)
    /\ Lt(Zero, ergebnis.out.gesamt)

\* the annual payment is smaller than the interest portion of row i
RateUnterZins(i) == Lt(annuitaet, tilgungsplan[i].Zinsanteil)

\* C21 as stated: in berechne_tilgungsplan, if in some year the annual payment
\* is smaller than that year's interest portion, the emitted row has a negative
\* principal portion and a remaining balance larger than the balance at the
\* start of that year: the principal portion is not clamped at 0.  This can
\* happen only outside the LoanTerms preconditions.
C21_Original ==
    \A i \in Zeilen :
        /\ RateUnterZins(i) =>
               /\ Lt(tilgungsplan[i].Tilgungsanteil, Zero)
               /\ Lt(Anfangssaldo(i), tilgungsplan[i].Restschuld)
        /\ LoanTerms => ~RateUnterZins(i)

\* C21, amended: if in some year the annual payment is smaller than that
\* year's interest portion, the emitted row has a negative principal portion,
\* which is not clamped at 0, and a remaining balance not smaller than the
\* balance at the start of that year: larger, or the same float when the
\* shortfall is below the rounding unit of the balance.  Within the LoanTerms
\* preconditions this happens only when the amortization rate is so small
\* that the annuity, as a float, does not exceed the interest of a year on
\* the whole principal.
C21_NegativeTilgung ==
    \A i \in Zeilen :
        /\ RateUnterZins(i) =>
               /\ Lt(tilgungsplan[i].Tilgungsanteil, Zero)
               /\ Le(Anfangssaldo(i), tilgungsplan[i].Restschuld)
               /\ Lt(Anfangssaldo(i), tilgungsplan[i].Restschuld)
                      \/ Nahe(Anfangssaldo(i), tilgungsplan[i].Restschuld)
        /\ (LoanTerms /\ RateUeberZins) => ~RateUnterZins(i)

\* the schedule of the loan 1000, 0.9 %, 2^-60 %, 3, within the LoanTerms
\* preconditions: in its second row the payment is below the interest, the
\* principal portion is negative and the balance is still 1000
C21_Witness ==
    /\ argumente = Winzig
    /\ LoanTerms
    /\ Len(tilgungsplan) >= 2
    /\ RateUnterZins(2)
    /\ Lt(tilgungsplan[2].Tilgungsanteil, Zero)
    /\ tilgungsplan[2].Restschuld = darlehensbetrag

\* the sum of the interest portions of the rows 1 .. i, added in the order of
\* the rows
RECURSIVE ZinsSumme(_)
ZinsSumme(i) ==
    IF i = 0 THEN Zero ELSE Add(ZinsSumme(i - 1), tilgungsplan[i].Zinsanteil)

\* the cumulative interest of every row is the sum of the interest portions up
\* to that row
ZinsenSummiert == \A i \in Zeilen : tilgungsplan[i].Zinsen_kumuliert = ZinsSumme(i)

\* C22 as stated: conservation in berechne_tilgungsplan: for every input with
\* principal > 0 and in every emitted row, cumulative principal paid +
\* remaining balance equals the original principal, and cumulative interest
\* equals the sum of the interest portions of that row and all earlier rows.
C22_Original ==
    Lt(Zero, darlehensbetrag) =>
        /\ \A i \in Zeilen :
               Add(tilgungsplan[i].Tilgung_kumuliert, tilgungsplan[i].Restschuld)
                   = darlehensbetrag
        /\ ZinsenSummiert

\* C22, amended: for every input with principal > 0 and in every emitted row,
\* cumulative interest equals the sum of the interest portions of that row and
\* all earlier rows, added in the order of the rows; and if moreover the rate
\* is >= 0 and the annuity, as a float, exceeds the interest of a year on the
\* whole principal, so that the balance never grows, cumulative principal paid
\* + remaining balance in the row of year k differs from the original
\* principal by at most k * 2^-51 * principal, two rounding units of the
\* principal for each year.
C22_Erhaltung ==
    Lt(Zero, darlehensbetrag) =>
        /\ (ZinsNichtNegativ /\ RateUeberZins) =>
               \A i \in Zeilen :
                   Le(Betrag(XSub(Add(tilgungsplan[i].Tilgung_kumuliert,
                                      tilgungsplan[i].Restschuld),
                                  darlehensbetrag)),
                      Spielraum(i, darlehensbetrag))
        /\ ZinsenSummiert

\* a schedule of the loan 100000, 8.1 %, 8.0 %, 8 with debt left in a row in
\* which cumulative principal + remaining balance is not the principal
C22_Witness ==
    /\ argumente = Rundung
    /\ ZinsNichtNegativ
    /\ RateUeberZins
    /\ \E i \in Zeilen :
           /\ i >= 2
           /\ Lt(Zero, tilgungsplan[i].Zinsanteil)
           /\ Lt(Zero, tilgungsplan[i].Restschuld)
           /\ Add(tilgungsplan[i].Tilgung_kumuliert, tilgungsplan[i].Restschuld)
                  /= darlehensbetrag

\* what the borrower pays in the year of row i
Jahreszahlung(i) == Add(tilgungsplan[i].Zinsanteil, tilgungsplan[i].Tilgungsanteil)

\* the principal portion of every row is > 0 and the balance decreases strictly
TilgungWirkt ==
    \A i \in Zeilen :
        /\ Lt(Zero, tilgungsplan[i].Tilgungsanteil)
        /\ Lt(tilgungsplan[i].Restschuld, Anfangssaldo(i))

\* C23 as stated: in every schedule produced by berechne_tilgungsplan with
\* principal > 0, rate >= 0 and amortization rate > 0, interest portion +
\* principal portion equals the constant annuity principal * (rate +
\* amortization)/100 in every row except a row that brings the balance to 0,
\* where the sum is <= the annuity; consequently the principal portion is
\* strictly positive in every row and the balance strictly decreases.
C23_Original ==
    (Lt(Zero, darlehensbetrag) /\ ZinsNichtNegativ /\ TilgungPositiv) =>
        /\ \A i \in Zeilen :
               /\ tilgungsplan[i].Restschuld /= Zero => Jahreszahlung(i) = Rate
               /\ tilgungsplan[i].Restschuld = Zero => Le(Jahreszahlung(i), Rate)
        /\ TilgungWirkt

\* the principal portion of every row is > 0 and the balance never increases:
\* it decreases strictly, or it stays the same float in a row whose principal
\* portion is at most one rounding unit of the balance, 2^-52 * balance
TilgungWirktGerundet ==
    \A i \in Zeilen :
        /\ Lt(Zero, tilgungsplan[i].Tilgungsanteil)
        /\ Le(tilgungsplan[i].Restschuld, Anfangssaldo(i))
        /\ tilgungsplan[i].Restschuld = Anfangssaldo(i) =>
               Le(tilgungsplan[i].Tilgungsanteil, XMul(Einheit, Anfangssaldo(i)))

\* C23, amended: in every schedule produced by berechne_tilgungsplan with
\* principal > 0, rate >= 0, amortization rate > 0 and an annuity that, as a
\* float, exceeds the interest of a year on the whole principal, interest
\* portion + principal portion equals the constant annuity within the floating
\* tolerance, a relative error of at most 2^-40, in every row except a row that
\* brings the balance to 0, where the sum is <= the annuity within the same
\* tolerance; the principal portion is strictly positive in every row and the
\* balance never increases: it strictly decreases, except in a row whose
\* principal portion is at most one rounding unit of the balance (2^-52 *
\* balance), where it may stay the same float.
C23_Annuitaet ==
    (Lt(Zero, darlehensbetrag) /\ ZinsNichtNegativ /\ TilgungPositiv /\ RateUeberZins) =>
        /\ \A i \in Zeilen :
               /\ tilgungsplan[i].Restschuld /= Zero => Nahe(Jahreszahlung(i), Rate)
               /\ tilgungsplan[i].Restschuld = Zero => KaumMehr(Jahreszahlung(i), Rate)
        /\ TilgungWirktGerundet

\* the returned schedule of the loan 1000, 0.9 %, 2^-51 %, 3, within the
\* preconditions: every year pays a principal portion > 0, and the balance is
\* 1000 in every row
C23_Witness ==
    /\ pc = "done"
    /\ argumente = Kaum
    /\ Lt(Zero, darlehensbetrag) /\ ZinsNichtNegativ /\ TilgungPositiv /\ RateUeberZins
    /\ Len(tilgungsplan) = 3
    /\ \A i \in Zeilen :
           /\ Lt(Zero, tilgungsplan[i].Tilgungsanteil)
           /\ tilgungsplan[i].Restschuld = darlehensbetrag
           /\ Nahe(Jahreszahlung(i), Rate)

\* the caller holds the returned schedule and the summary of the same loan
GleichesDarlehen ==
    /\ pc = "done"
    /\ ergebnis.fn = "berechne_annuitaet"
    /\ ergebnis.args = argumente

\* the total paid according to the schedule: final cumulative interest + final
\* cumulative principal
PlanGesamt ==
    Add(tilgungsplan[Len(tilgungsplan)].Zinsen_kumuliert,
        tilgungsplan[Len(tilgungsplan)].Tilgung_kumuliert)

\* the final cumulative interest of a schedule that ends with a debt is >= the
\* zinsen_gesamt of the summary
ZinsenMindestensSumme ==
    Lt(Zero, tilgungsplan[Len(tilgungsplan)].Restschuld) =>
        Le(ergebnis.out.zinsen_gesamt, tilgungsplan[Len(tilgungsplan)].Zinsen_kumuliert)

\* C24 as stated: for identical loan terms with principal > 0, rate >= 0,
\* amortization rate > 0 and term_years > 0, the total paid according to the
\* schedule of berechne_tilgungsplan (final cumulative interest + final
\* cumulative principal) never exceeds the gesamtkosten returned by
\* berechne_annuitaet, and the schedule's final cumulative interest is >= the
\* summary's zinsen_gesamt whenever the schedule ends with a remaining balance
\* > 0.
C24_Original ==
    (GleichesDarlehen /\ LoanTerms /\ Len(tilgungsplan) > 0) =>
        /\ Le(PlanGesamt, ergebnis.out.gesamtkosten)
        /\ ZinsenMindestensSumme

\* the room of the roundings of a schedule and a summary of term_years years:
\* (term_years + 2) * 2^-51 * gesamtkosten
SpielraumLaufzeit == Spielraum(laufzeit_jahre + 2, ergebnis.out.gesamtkosten)

\* a <= b + SpielraumLaufzeit, computed without rounding
KaumMehrLaufzeit(a, b) == Le(XSub(a, b), SpielraumLaufzeit)

\* C24, amended: for identical loan terms with principal > 0, rate >= 0,
\* amortization rate > 0, term_years > 0 and an annuity that, as a float,
\* exceeds the interest of a year on the whole principal, the total paid
\* according to the schedule (final cumulative interest + final cumulative
\* principal) never exceeds the gesamtkosten returned by berechne_annuitaet by
\* more than the room of the roundings, (term_years + 2) * 2^-51 *
\* gesamtkosten, and whenever the schedule ends with a remaining balance > 0
\* the summary's zinsen_gesamt does not exceed the schedule's final cumulative
\* interest by more than that room.
C24_PlanUndSumme ==
    (GleichesDarlehen /\ LoanTerms /\ RateUeberZins /\ Len(tilgungsplan) > 0) =>
        /\ KaumMehrLaufzeit(PlanGesamt, ergebnis.out.gesamtkosten)
        /\ Lt(Zero, tilgungsplan[Len(tilgungsplan)].Restschuld) =>
               KaumMehrLaufzeit(ergebnis.out.zinsen_gesamt,
                                tilgungsplan[Len(tilgungsplan)].Zinsen_kumuliert)

\* the loan 7, 0 %, 2 %, 50 within the preconditions: its schedule ends after
\* 50 rows with a balance > 0 and the cumulative interest 0, and the summary
\* has a zinsen_gesamt > 0
C24_Witness ==
    /\ GleichesDarlehen
    /\ LoanTerms
    /\ RateUeberZins
    /\ argumente = Rest
    /\ Len(tilgungsplan) = laufzeit_jahre
    /\ Lt(Zero, tilgungsplan[Len(tilgungsplan)].Restschuld)
    /\ tilgungsplan[Len(tilgungsplan)].Zinsen_kumuliert = Zero
    /\ Lt(Zero, ergebnis.out.zinsen_gesamt)
    /\ Le(PlanGesamt, ergebnis.out.gesamtkosten)

====
